---- MODULE Spec2Model ----
(***************************************************************************)
(* Model of the FoodOptimizer backend: the nutrient-constraint data model  *)
(* (Backend/nutrition_constraints.py) and the linear-program builder and   *)
(* result extractor (Backend/solver.py).                                   *)
(*                                                                         *)
(* Text is a sequence of atoms.  An atom is either one of the characters   *)
(* the code looks at (" ", ",", "#", "-", a digit) or a word such as       *)
(* "protein_g", standing for a run of characters none of which is one of   *)
(* those.  Numbers are integers; math.inf is the number Inf, larger than   *)
(* every finite quantity of the model, None is the number NoneVal and a   *)
(* float NaN is the number NaN, neither of which any sum or product of     *)
(* finite numbers produces.  Sums, products and comparisons of floats go   *)
(* through FAdd, FMul and FLt, which treat Inf and NaN as IEEE 754 does.   *)
(***************************************************************************)
EXTENDS Integers, Sequences, FiniteSets, TLC

VARIABLES
  line, valid, parsed,            \* NutrientConstraint.from_string: arguments and outcome
  fileLines,                      \* the lines of the constraints file on disk
  allowed, nutrients, last,       \* a NutrientConstraints object and the last call made on it
  df, settings,                   \* Solver.solve: the food table and the SolverSettings
  pc,                             \* Solver.solve: the statement reached
  lp,                             \* the pywraplp solver and the model built in it
  result                          \* Solver.solve: what it returned or raised

solveVars == <<df, settings, pc, lp, result>>
vars == <<line, valid, parsed, fileLines, allowed, nutrients, last, solveVars>>

\* ---------------------------------------------------------------- bounds
MaxLines == 2      \* lines of a constraints file
MaxRows == 2       \* rows of the food table
MaxOpt == 2        \* length of nutrients_to_optimize

\* ---------------------------------------------------------------- values
Inf == 1000000         \* math.inf
NoneVal == -1000000    \* None, where a number is expected
NaN == -2000000        \* float('nan')

IsFinite(x) == x # NaN /\ x # Inf

\* a + b on floats that are not negative infinity
FAdd(a, b) ==
  IF a = NaN \/ b = NaN THEN NaN
  ELSE IF a = Inf \/ b = Inf THEN Inf
  ELSE a + b

\* a * b on floats of which neither is negative
FMul(a, b) ==
  IF a = NaN \/ b = NaN THEN NaN
  ELSE IF a = Inf \/ b = Inf THEN (IF a = 0 \/ b = 0 THEN NaN ELSE Inf)
  ELSE a * b

\* a < b on floats: False when either is NaN
FLt(a, b) == a # NaN /\ b # NaN /\ a < b

Digits == {"0", "1", "2", "3"}

DigitVal(c) == CASE c = "0" -> 0 [] c = "1" -> 1 [] c = "2" -> 2 [] c = "3" -> 3

\* An optional iterable of names: None, or the names it holds.
NoNames == [given |-> FALSE, names |-> {}]
Names(S) == [given |-> TRUE, names |-> S]

\* ---------------------------------------------------------------- str helpers
\* str.replace(' ', '')
RECURSIVE RemoveSpaces(_)
RemoveSpaces(s) ==
  IF s = <<>> THEN <<>>
  ELSE IF Head(s) = " " THEN RemoveSpaces(Tail(s))
       ELSE <<Head(s)>> \o RemoveSpaces(Tail(s))

\* str.split(','): always at least one field, empty fields are kept
RECURSIVE SplitFields(_, _, _)
SplitFields(s, fields, field) ==
  IF s = <<>> THEN Append(fields, field)
  ELSE IF Head(s) = "," THEN SplitFields(Tail(s), Append(fields, field), <<>>)
       ELSE SplitFields(Tail(s), fields, Append(field, Head(s)))

SplitComma(s) == SplitFields(s, <<>>, <<>>)

RECURSIVE LStrip(_)
LStrip(s) == IF s # <<>> /\ Head(s) = " " THEN LStrip(Tail(s)) ELSE s

RECURSIVE RStrip(_)
RStrip(s) ==
  IF s # <<>> /\ s[Len(s)] = " " THEN RStrip(SubSeq(s, 1, Len(s) - 1)) ELSE s

\* str.strip()
Strip(s) == RStrip(LStrip(s))

\* str.startswith("#")
StartsWithHash(s) == s # <<>> /\ Head(s) = "#"

RECURSIVE DigitsValue(_)
DigitsValue(s) ==
  IF s = <<>> THEN 0
  ELSE 10 * DigitsValue(SubSeq(s, 1, Len(s) - 1)) + DigitVal(s[Len(s)])

AllDigits(s) == s # <<>> /\ \A i \in 1..Len(s) : s[i] \in Digits

\* float(text) on the literals of the model: an optional sign and one or
\* more digits, "nan" and "inf".  Anything else makes float() raise
\* ValueError.
ParseFloat(s) ==
  IF AllDigits(s) THEN [ok |-> TRUE, v |-> DigitsValue(s)]
  ELSE IF s = <<"nan">> THEN [ok |-> TRUE, v |-> NaN]
  ELSE IF s = <<"inf">> THEN [ok |-> TRUE, v |-> Inf]
  ELSE IF s # <<>> /\ Head(s) = "-" /\ AllDigits(Tail(s))
       THEN [ok |-> TRUE, v |-> 0 - DigitsValue(Tail(s))]
       ELSE [ok |-> FALSE, v |-> 0]

\* The name field of a line as a name: the word it consists of, "" when the
\* field is empty.  A field of several atoms is kept as one joined name.
RECURSIVE FieldName(_)
FieldName(f) == IF f = <<>> THEN "" ELSE Head(f) \o FieldName(Tail(f))

\* ---------------------------------------------------------------- NutrientConstraint
Constraint(n, mn, mx) == [name |-> n, min_g |-> mn, max_g |-> mx]

\* Outcome of an operation that returns a constraint or raises.
\*   kind "ok"              : returned
\*   kind "ParseError"      : ValueError raised by from_string's field count check
\*   kind "FloatError"      : ValueError raised by float()
\*   kind "ValidationError" : ValueError raised by validate
Returned(c) == [kind |-> "ok", err |-> "", c |-> c]
Raised(k, e) == [kind |-> k, err |-> e, c |-> Constraint("", 0, Inf)]

\* NutrientConstraint.validate: "" when it returns, else the message raised
Validate(c, valid_nutrients) ==
  IF c.name = "" THEN "name must be non-empty"
  ELSE IF (valid_nutrients.given /\ valid_nutrients.names # {})
          /\ c.name \notin valid_nutrients.names
       THEN "name must be within the list of valid nutrients provided"
  ELSE IF FLt(c.min_g, 0) \/ (c.max_g # NoneVal /\ FLt(c.max_g, 0))
       THEN "min_g and max_g must be non-negative"
  ELSE IF c.max_g # NoneVal /\ FLt(c.max_g, c.min_g)
       THEN "max_g must be >= min_g"
  ELSE ""

MinField(f) == IF f = <<"-">> THEN [ok |-> TRUE, v |-> 0] ELSE ParseFloat(f)
MaxField(f) == IF f = <<"-">> THEN [ok |-> TRUE, v |-> Inf] ELSE ParseFloat(f)

\* NutrientConstraint.from_string
FromString(input, valid_nutrients) ==
  LET split == SplitComma(RemoveSpaces(input))
  IN IF Len(split) # 3
     THEN Raised("ParseError", "incorrect input, expected 3 elements")
     ELSE LET mn == MinField(split[2])
              mx == MaxField(split[3])
          IN IF ~mn.ok \/ ~mx.ok
             THEN Raised("FloatError", "could not convert string to float")
             ELSE LET obj == Constraint(FieldName(split[1]), mn.v, mx.v)
                      msg == Validate(obj, valid_nutrients)
                  IN IF msg # "" THEN Raised("ValidationError", msg)
                     ELSE Returned(obj)

\* ---------------------------------------------------------------- dict
\* A dict[str, NutrientConstraint] is the sequence of its items in insertion
\* order: records [key, c] with distinct keys.
Keys(d) == {d[i].key : i \in 1..Len(d)}

IndexOf(d, k) == CHOOSE i \in 1..Len(d) : d[i].key = k

\* d[k]
Get(d, k) == d[IndexOf(d, k)].c

\* d[k] = c: an existing key keeps its position, a new key goes last
DictSet(d, k, c) ==
  IF k \in Keys(d)
  THEN [i \in 1..Len(d) |-> IF d[i].key = k THEN [key |-> k, c |-> c] ELSE d[i]]
  ELSE Append(d, [key |-> k, c |-> c])

\* d.pop(k, None)
RECURSIVE DictPop(_, _)
DictPop(d, k) ==
  IF d = <<>> THEN <<>>
  ELSE IF Head(d).key = k THEN Tail(d)
       ELSE <<Head(d)>> \o DictPop(Tail(d), k)

\* ---------------------------------------------------------------- NutrientConstraints
\* An object is the pair (allowed, nutrients); allowed is None or a set.

\* NutrientConstraints.__init__
NewSet(allowed_nutrients) == [allowed |-> allowed_nutrients, nutrients |-> <<>>]

\* Outcome of a call on (or constructing) a constraint set: the object after
\* the call, and the message raised ("" when the call returned).
SetOutcome(obj, msg) == [obj |-> obj, err |-> msg]

\* upsert with the assignment to self.nutrients moved ahead of the checks
UpsertStoreFirst(obj, nutrient, min_g, max_g) ==
  LET max_val == IF max_g = NoneVal THEN Inf ELSE max_g
      nc == Constraint("", min_g, max_val)
      stored == [obj EXCEPT !.nutrients = DictSet(@, nutrient, nc)]
  IN IF obj.allowed.given /\ nutrient \notin obj.allowed.names
     THEN SetOutcome(stored, "is not in allowed nutrients")
     ELSE SetOutcome(stored, Validate(nc, NoNames))

\* NutrientConstraints.upsert
Upsert(obj, nutrient, min_g, max_g) ==
  IF obj.allowed.given /\ nutrient \notin obj.allowed.names
  THEN SetOutcome(obj, "is not in allowed nutrients")
  ELSE LET max_val == IF max_g = NoneVal THEN Inf ELSE max_g
           nc == Constraint("", min_g, max_val)
           msg == Validate(nc, NoNames)
       IN IF msg # "" THEN SetOutcome(obj, msg)
          ELSE SetOutcome([obj EXCEPT !.nutrients = DictSet(@, nutrient, nc)], "")

\* NutrientConstraints.remove
Remove(obj, nutrient) == [obj EXCEPT !.nutrients = DictPop(@, nutrient)]

\* NutrientConstraints.clear
Clear(obj) == [obj EXCEPT !.nutrients = <<>>]

\* NutrientConstraints.from_dict: payload is a sequence of [key, mn, mx];
\* the first upsert that raises ends the construction.
RECURSIVE UpsertAll(_, _)
UpsertAll(obj, payload) ==
  IF payload = <<>> THEN SetOutcome(obj, "")
  ELSE LET r == Upsert(obj, Head(payload).key, Head(payload).mn, Head(payload).mx)
       IN IF r.err # "" THEN r ELSE UpsertAll(r.obj, Tail(payload))

FromDict(payload, allowed_nutrients) == UpsertAll(NewSet(allowed_nutrients), payload)

\* NutrientConstraints.read_from_file: file is the sequence of the file's
\* lines.  The first line that from_string rejects ends the load; err then
\* holds the kind of failure and the message.
RECURSIVE ReadLines(_, _, _)
ReadLines(obj, file, valid_nutrients) ==
  IF file = <<>> THEN [obj |-> obj, kind |-> "ok", err |-> ""]
  ELSE LET ln == Strip(Head(file))
       IN IF ln = <<>> \/ StartsWithHash(ln)
          THEN ReadLines(obj, Tail(file), valid_nutrients)
          ELSE LET nc == FromString(ln, NoNames)
               IN IF nc.kind # "ok"
                  THEN [obj |-> obj, kind |-> nc.kind, err |-> nc.err]
                  ELSE ReadLines([obj EXCEPT !.nutrients = DictSet(@, nc.c.name, nc.c)],
                                 Tail(file), valid_nutrients)

ReadFromFile(file, valid_nutrients) == ReadLines(NewSet(NoNames), file, valid_nutrients)

\* ---------------------------------------------------------------- inputs
ValidChoices ==
  {NoNames, Names({}), Names({"protein_g"}), Names({"protein_g", "fiber_g"})}

NameFields == {<<>>, <<"protein_g">>, <<"fiber_g">>}
BoundFields == {<<"-">>, <<"0">>, <<"1">>, <<"2">>, <<"1", "0">>, <<"-", "1">>, <<"x">>}

Line3(n, a, b) == n \o <<",">> \o a \o <<",">> \o b

\* Lines given to from_string: every "name,min,max" over the fields above,
\* and lines of one, two and four fields, with and without spaces.
ParseLines ==
  {Line3(n, a, b) : n \in NameFields, a \in BoundFields, b \in BoundFields}
  \cup { <<>>,
         <<"protein_g">>,
         <<"protein_g", ",", "1">>,
         <<"protein_g", ",", "1", ",", "2", ",", "3">>,
         <<"protein_g", ",", ",">>,
         <<" ", "protein_g", " ", ",", " ", "1", ",", " ", "2", " ">>,
         <<"fiber_g", ",", " ", "0", ",", " ", "-">> }

\* Lines of a constraints file.
FileLines ==
  { <<"#", " ", "protein_g", ",", "1", ",", "2">>,
    <<" ">>,
    <<"protein_g", ",", "1", ",", "2">>,
    <<" ", "protein_g", " ", ",", " ", "0", ",", " ", "-", " ">>,
    <<"fiber_g", ",", "0", ",", "-">>,
    <<"fiber_g", ",", "2", ",", "1">>,
    <<"protein_g", ",", "1">> }

Files == UNION {[1..n -> FileLines] : n \in 0..MaxLines}

\* The files read during the life of a constraint set.
SetFileLines ==
  { <<"protein_g", ",", "1", ",", "2">>,
    <<"fiber_g", ",", "0", ",", "-">>,
    <<"fiber_g", ",", "2", ",", "1">> }

SetFiles == UNION {[1..n -> SetFileLines] : n \in 0..MaxLines}

Payloads ==
  { <<>>,
    <<[key |-> "protein_g", mn |-> 0, mx |-> NoneVal]>>,
    <<[key |-> "protein_g", mn |-> 1, mx |-> 2], [key |-> "fiber_g", mn |-> 0, mx |-> Inf]>>,
    <<[key |-> "fiber_g", mn |-> 2, mx |-> 1]>> }

UpsertNames == {"", "protein_g", "fiber_g"}
UpsertMins == {-1, 0, 2}
UpsertMaxs == {NoneVal, 1, Inf}


\* ---------------------------------------------------------------- Solver.solve
\* Amounts in grams are counted in units of the tolerance eps = 1e-9, so
\* that an amount of Eps is exactly the tolerance.
Eps == 1

\* A table is [cols, rows]: the set of its column names and the sequence of
\* its rows; a row gives a value for every column name of the catalog, and
\* only the values of the table's columns are ever read.
Cell(data, i, col) == data.rows[i][col]

\* An exception raised, and the outcome of solve before it ends.
Exc(type, msg, arg) == [kind |-> "raised", exc |-> type, msg |-> msg, arg |-> arg]
Running == [kind |-> "none"]

\* list(nutrition_constraints.nutrients.keys())
KeyList(d) == [i \in 1..Len(d) |-> d[i].key]

\* The first element of the list cols that is not a column, "" if there is none
RECURSIVE FirstMissing(_, _)
FirstMissing(cols, columns) ==
  IF cols = <<>> THEN ""
  ELSE IF Head(cols) \notin columns THEN Head(cols)
       ELSE FirstMissing(Tail(cols), columns)

\* the checks of solve with the row count tested ahead of the columns
PreconditionsRowsFirst(data, s) ==
  IF Len(s.nutrition_constraints) = 0
  THEN Exc("ValueError", "No constraints in nutrition_constraints object, nothing to solve", "")
  ELSE IF Len(s.nutrients_to_optimize) = 0
  THEN Exc("ValueError", "No nutrients to were given to optimize for", "")
  ELSE IF Len(data.rows) = 0
  THEN Exc("ValueError", "No foods (rows) in dataframe", "")
  ELSE LET col == FirstMissing(KeyList(s.nutrition_constraints) \o s.nutrients_to_optimize,
                               data.cols)
       IN IF col # ""
          THEN Exc("ValueError", "is not present in the dataframe", col)
          ELSE Running

\* solve, lines 36-50: the exception raised, or Running
Preconditions(data, s) ==
  IF Len(s.nutrition_constraints) = 0
  THEN Exc("ValueError", "No constraints in nutrition_constraints object, nothing to solve", "")
  ELSE IF Len(s.nutrients_to_optimize) = 0
  THEN Exc("ValueError", "No nutrients to were given to optimize for", "")
  ELSE LET col == FirstMissing(KeyList(s.nutrition_constraints) \o s.nutrients_to_optimize,
                               data.cols)
       IN IF col # ""
          THEN Exc("ValueError", "is not present in the dataframe", col)
          ELSE IF Len(data.rows) = 0
               THEN Exc("ValueError", "No foods (rows) in dataframe", "")
               ELSE Running

\* The solver before CreateSolver.
NoSolver ==
  [created |-> FALSE, vars |-> <<>>, constraints |-> <<>>, objective |-> <<>>,
   direction |-> "unset", solved |-> FALSE, status |-> "none", values |-> <<>>]

\* solver.NumVar(0.0, ub, name) for every row
NumVars(data, max_qty_per_food) ==
  [i \in 1..Len(data.rows) |->
     [lb |-> 0,
      ub |-> IF max_qty_per_food # NoneVal THEN max_qty_per_food ELSE Inf,
      fid |-> Cell(data, i, "food_code")]]

\* coeff_arrays[nutrient]
CoeffArray(data, nutrient) == [i \in 1..Len(data.rows) |-> Cell(data, i, nutrient)]

\* solver.Constraint(lb, ub_val) and its coefficients, for every item of the dict
LinearConstraints(data, d) ==
  [j \in 1..Len(d) |->
     LET lb == d[j].c.min_g
         ub == d[j].c.max_g
     IN [lb |-> IF lb = NoneVal THEN 0 ELSE lb,
         ub |-> IF ub = NoneVal \/ ub = Inf THEN Inf ELSE ub,
         coeffs |-> CoeffArray(data, d[j].key)]]

\* the objective coefficient of row i with every optimized nutrient counted once
ObjectiveCoefOncePerName(data, nuts, i) ==
  LET S == {nuts[k] : k \in 1..Len(nuts)}
      RECURSIVE SumOver(_)
      SumOver(T) == IF T = {} THEN 0
                    ELSE LET n == CHOOSE x \in T : TRUE
                         IN Cell(data, i, n) + SumOver(T \ {n})
  IN SumOver(S)

\* coef += weights.get(nut, 1.0) * coeff_arrays[nut][i], over the list
RECURSIVE ObjectiveCoef(_, _, _)
ObjectiveCoef(data, nuts, i) ==
  IF nuts = <<>> THEN 0
  ELSE FAdd(FMul(1, Cell(data, i, Head(nuts))), ObjectiveCoef(data, Tail(nuts), i))

ObjectiveCoefs(data, nuts) == [i \in 1..Len(data.rows) |-> ObjectiveCoef(data, nuts, i)]

\* objective.SetMinimization / SetMaximization, "" for an unrecognized type
Direction(objective_type) ==
  IF objective_type \in {"min", "minimize", "minimization"} THEN "min"
  ELSE IF objective_type \in {"max", "maximize", "maximization"} THEN "max"
  ELSE ""

\* sum of a sequence of floats, as objective.Value() adds its terms
RECURSIVE SeqSum(_)
SeqSum(q) == IF q = <<>> THEN 0 ELSE FAdd(Head(q), SeqSum(Tail(q)))

\* pandas Series.sum(): skipna is True by default, NaN elements are left out
RECURSIVE PandasSum(_)
PandasSum(q) ==
  IF q = <<>> THEN 0
  ELSE IF Head(q) = NaN THEN PandasSum(Tail(q))
       ELSE FAdd(Head(q), PandasSum(Tail(q)))

\* (data['amount_g'] * data[col]).sum()
ContribTotal(data, amounts, col) ==
  PandasSum([i \in 1..Len(amounts) |-> FMul(amounts[i], Cell(data, i, col))])

\* the rows kept with a tolerance test of >= instead of >
ChosenFoodsAtLeastEps(amounts) ==
  SelectSeq([i \in 1..Len(amounts) |-> [row |-> i, amount_g |-> amounts[i]]],
            LAMBDA r : r.amount_g >= Eps)

\* data[data['amount_g'] > eps]: the rows kept, in table order
ChosenFoods(amounts) ==
  SelectSeq([i \in 1..Len(amounts) |-> [row |-> i, amount_g |-> amounts[i]]],
            LAMBDA r : r.amount_g > Eps)

\* set(list(nutrition_constraints.nutrients.keys()) + nutrients_to_optimize)
AllNutrients(s) ==
  Keys(s.nutrition_constraints)
    \cup {s.nutrients_to_optimize[k] : k \in 1..Len(s.nutrients_to_optimize)}

\* solve, lines 118-147: what it returns, or the KeyError of line 127
Extract(data, s, solver) ==
  LET amounts == solver.values
  IN IF "energy_kcal" \notin data.cols
     THEN Exc("KeyError", "energy_kcal", "energy_kcal")
     ELSE LET chosen_foods == ChosenFoods(amounts)
          IN [kind |-> "returned",
              chosen_foods |-> chosen_foods,
              totals |->
                [num_items_chosen |->
                   Len(SelectSeq(chosen_foods, LAMBDA r : r.amount_g > 0)),
                 objective_value |->
                   SeqSum([i \in 1..Len(amounts) |-> FMul(solver.objective[i], amounts[i])]),
                 total_energy_kcal |-> ContribTotal(data, amounts, "energy_kcal"),
                 total |-> [n \in AllNutrients(s) |-> ContribTotal(data, amounts, n)]]]

SolveIdle ==
  /\ df = [cols |-> {}, rows |-> <<>>]
  /\ settings = [nutrition_constraints |-> <<>>, nutrients_to_optimize |-> <<>>,
                 max_qty_per_food |-> NoneVal, objective_type |-> "min"]
  /\ pc = "idle"
  /\ lp = NoSolver
  /\ result = Running

\* ---------------------------------------------------------------- calls
NotCalled == [kind |-> "none", err |-> "", c |-> Constraint("", 0, Inf)]

\* The record of a call on the constraint set: the operation, its arguments,
\* the entries before it, and the message it raised ("" when it returned).
Call(op) ==
  [op |-> op, err |-> "", kind |-> "ok", key |-> "", mn |-> 0, mx |-> 0,
   before |-> <<>>, file |-> <<>>, valid |-> NoNames, payload |-> <<>>]

ParseIdle == line = <<>> /\ parsed = NotCalled
SetIdle == allowed = NoNames /\ nutrients = <<>> /\ last = Call("none")

\* ---------------------------------------------------------------- from_string
ParseInit ==
  /\ line \in ParseLines
  /\ valid \in ValidChoices
  /\ parsed = NotCalled
  /\ fileLines = <<>>
  /\ SetIdle
  /\ SolveIdle

CallFromString ==
  /\ parsed.kind = "none"
  /\ parsed' = FromString(line, valid)
  /\ UNCHANGED <<line, valid, fileLines, allowed, nutrients, last, solveVars>>

ParseNext == CallFromString

ParseSpec == ParseInit /\ [][ParseNext]_vars

\* ---------------------------------------------------------------- constraint set
SetInit ==
  /\ \E a \in ValidChoices :
       /\ allowed = NewSet(a).allowed
       /\ nutrients = NewSet(a).nutrients
       /\ last = [Call("init") EXCEPT !.valid = a]
  /\ fileLines = <<>>
  /\ valid = NoNames
  /\ ParseIdle
  /\ SolveIdle

\* A constructor that returns replaces the object; one that raises leaves
\* the caller with the object it had.
Construct ==
  \E a \in ValidChoices :
    /\ allowed' = NewSet(a).allowed
    /\ nutrients' = NewSet(a).nutrients
    /\ last' = [Call("init") EXCEPT !.valid = a, !.before = nutrients]
    /\ UNCHANGED <<line, valid, parsed, fileLines, solveVars>>

CallFromDict ==
  \E payload \in Payloads, a \in ValidChoices :
    LET r == FromDict(payload, a)
    IN /\ allowed' = IF r.err = "" THEN r.obj.allowed ELSE allowed
       /\ nutrients' = IF r.err = "" THEN r.obj.nutrients ELSE nutrients
       /\ last' = [Call("from_dict") EXCEPT !.err = r.err, !.payload = payload,
                                            !.valid = a, !.before = nutrients]
       /\ UNCHANGED <<line, valid, parsed, fileLines, solveVars>>

DoReadFromFile(f, v) ==
  LET r == ReadFromFile(f, v)
  IN /\ allowed' = IF r.err = "" THEN r.obj.allowed ELSE allowed
     /\ nutrients' = IF r.err = "" THEN r.obj.nutrients ELSE nutrients
     /\ last' = [Call("read_from_file") EXCEPT !.err = r.err, !.kind = r.kind,
                                               !.file = f, !.valid = v,
                                               !.before = nutrients]
     /\ UNCHANGED <<line, valid, parsed, fileLines, solveVars>>

CallReadFromFile ==
  \E f \in SetFiles, v \in {NoNames, Names({"protein_g"})} : DoReadFromFile(f, v)

CallUpsert ==
  \E n \in UpsertNames, mn \in UpsertMins, mx \in UpsertMaxs :
    LET r == Upsert([allowed |-> allowed, nutrients |-> nutrients], n, mn, mx)
    IN /\ allowed' = r.obj.allowed
       /\ nutrients' = r.obj.nutrients
       /\ last' = [Call("upsert") EXCEPT !.err = r.err, !.key = n, !.mn = mn,
                                         !.mx = mx, !.before = nutrients]
       /\ UNCHANGED <<line, valid, parsed, fileLines, solveVars>>

CallRemove ==
  \E n \in UpsertNames :
    LET o == Remove([allowed |-> allowed, nutrients |-> nutrients], n)
    IN /\ allowed' = o.allowed
       /\ nutrients' = o.nutrients
       /\ last' = [Call("remove") EXCEPT !.key = n, !.before = nutrients]
       /\ UNCHANGED <<line, valid, parsed, fileLines, solveVars>>

CallClear ==
  LET o == Clear([allowed |-> allowed, nutrients |-> nutrients])
  IN /\ allowed' = o.allowed
     /\ nutrients' = o.nutrients
     /\ last' = [Call("clear") EXCEPT !.before = nutrients]
     /\ UNCHANGED <<line, valid, parsed, fileLines, solveVars>>

SetNext ==
  \/ Construct
  \/ CallFromDict
  \/ CallReadFromFile
  \/ CallUpsert
  \/ CallRemove
  \/ CallClear

SetSpec == SetInit /\ [][SetNext]_vars

\* ---------------------------------------------------------------- loading a file
\* One call of read_from_file on a file and a list of valid names.
LoadInit ==
  /\ fileLines \in Files
  /\ valid \in ValidChoices
  /\ line = <<>>
  /\ parsed = NotCalled
  /\ SetIdle
  /\ SolveIdle

LoadFile ==
  /\ last.op = "none"
  /\ DoReadFromFile(fileLines, valid)

LoadNext == LoadFile

LoadSpec == LoadInit /\ [][LoadNext]_vars


\* ---------------------------------------------------------------- solve: inputs
\* Per-gram amounts of the catalog's foods, and their food codes.
FoodA == [food_code |-> 11, energy_kcal |-> 4, protein_g |-> 2]
FoodB == [food_code |-> 12, energy_kcal |-> 3, protein_g |-> 1]
Catalog == {FoodA, FoodB}
CatalogColumns == {"food_code", "energy_kcal", "protein_g"}

Tables ==
  {[cols |-> c, rows |-> r] :
     c \in SUBSET CatalogColumns,
     r \in UNION {[1..n -> Catalog] : n \in 0..MaxRows}}

Entry(k, mn, mx) == [key |-> k, c |-> Constraint(k, mn, mx)]

ConstraintDicts ==
  { <<>>,
    <<Entry("protein_g", 1, Inf)>>,
    <<Entry("fiber_g", 0, Inf)>>,
    <<Entry("energy_kcal", 0, NoneVal), Entry("protein_g", 1, 3)>> }

OptimizeLists == UNION {[1..n -> {"energy_kcal", "protein_g"}] : n \in 0..MaxOpt}

MaxQuantities == {NoneVal, 0, 3}
ObjectiveTypes == {"min", "maximize", "fastest"}

\* What solver.Solve() can report, and the value it can give a variable.
Statuses == {"OPTIMAL", "FEASIBLE", "INFEASIBLE", "UNBOUNDED"}
AmountValues == {0, Eps, 2 * Eps}

\* ---------------------------------------------------------------- solve: steps
SolveInit ==
  /\ df \in Tables
  /\ settings \in [nutrition_constraints : ConstraintDicts,
                   nutrients_to_optimize : OptimizeLists,
                   max_qty_per_food : MaxQuantities,
                   objective_type : ObjectiveTypes]
  /\ pc = "check"
  /\ lp = NoSolver
  /\ result = Running
  /\ fileLines = <<>>
  /\ valid = NoNames
  /\ ParseIdle
  /\ SetIdle

Others7 == <<line, valid, parsed, fileLines, allowed, nutrients, last>>

\* lines 36-50
CheckInputs ==
  /\ pc = "check"
  /\ LET r == Preconditions(df, settings)
     IN /\ result' = r
        /\ pc' = IF r.kind = "raised" THEN "done" ELSE "create_solver"
  /\ UNCHANGED <<df, settings, lp, Others7>>

\* lines 53-56: CreateSolver returns a solver, or None
CreateSolver ==
  /\ pc = "create_solver"
  /\ \E available \in BOOLEAN :
       IF available
       THEN /\ lp' = [lp EXCEPT !.created = TRUE]
            /\ pc' = "variables"
            /\ UNCHANGED result
       ELSE /\ result' = Exc("RuntimeError", "GLOP solver unavailable", "")
            /\ pc' = "done"
            /\ UNCHANGED lp
  /\ UNCHANGED <<df, settings, Others7>>

\* lines 59-72: the first row read raises KeyError without a food_code column
CreateVariables ==
  /\ pc = "variables"
  /\ IF "food_code" \in df.cols
     THEN /\ lp' = [lp EXCEPT !.vars = NumVars(df, settings.max_qty_per_food)]
          /\ pc' = "constraints"
          /\ UNCHANGED result
     ELSE /\ result' = Exc("KeyError", "food_code", "food_code")
          /\ pc' = "done"
          /\ UNCHANGED lp
  /\ UNCHANGED <<df, settings, Others7>>

\* lines 75-90
AddConstraints ==
  /\ pc = "constraints"
  /\ lp' = [lp EXCEPT !.constraints = LinearConstraints(df, settings.nutrition_constraints)]
  /\ pc' = "objective"
  /\ UNCHANGED <<df, settings, result, Others7>>

\* lines 94-108
SetObjective ==
  /\ pc = "objective"
  /\ LET dir == Direction(settings.objective_type)
         coefs == ObjectiveCoefs(df, settings.nutrients_to_optimize)
     IN IF dir # ""
        THEN /\ lp' = [lp EXCEPT !.objective = coefs, !.direction = dir]
             /\ pc' = "solve"
             /\ UNCHANGED result
        ELSE /\ lp' = [lp EXCEPT !.objective = coefs]
             /\ result' = Exc("ValueError", "Unrecognized objective_type", settings.objective_type)
             /\ pc' = "done"
  /\ UNCHANGED <<df, settings, Others7>>

\* lines 111-116: the solver reports a status and, when OPTIMAL, a value for
\* every variable
Solve ==
  /\ pc = "solve"
  /\ \E status \in Statuses :
       IF status = "OPTIMAL"
       THEN \E values \in [1..Len(lp.vars) -> AmountValues] :
              /\ lp' = [lp EXCEPT !.solved = TRUE, !.status = status, !.values = values]
              /\ pc' = "extract"
              /\ UNCHANGED result
       ELSE /\ lp' = [lp EXCEPT !.solved = TRUE, !.status = status]
            /\ pc' = "done"
            /\ result' =
                 IF status = "INFEASIBLE"
                 THEN Exc("RuntimeError", "Problem infeasible: cannot meet nutrition constraints with available foods.", "")
                 ELSE Exc("RuntimeError", "Solver finished with status", status)
  /\ UNCHANGED <<df, settings, Others7>>

\* lines 118-147
ExtractSolution ==
  /\ pc = "extract"
  /\ result' = Extract(df, settings, lp)
  /\ pc' = "done"
  /\ UNCHANGED <<df, settings, lp, Others7>>

SolveNext ==
  \/ CheckInputs
  \/ CreateSolver
  \/ CreateVariables
  \/ AddConstraints
  \/ SetObjective
  \/ Solve
  \/ ExtractSolution

SolveSpec == SolveInit /\ [][SolveNext]_vars


\* ---------------------------------------------------------------- load, then solve
\* The main script: the constraints are read from a file and handed to
\* solve with a food table.  Here the file and the table may hold values
\* that are not finite.
FoodNaN == [food_code |-> 13, energy_kcal |-> 3, protein_g |-> NaN]
FoodInf == [food_code |-> 14, energy_kcal |-> Inf, protein_g |-> 1]

NonFiniteTables ==
  {[cols |-> CatalogColumns, rows |-> r] :
     r \in UNION {[1..n -> {FoodA, FoodNaN, FoodInf}] : n \in 0..MaxRows}}

NonFiniteFileLines ==
  { <<"protein_g", ",", "1", ",", "-">>,
    <<"protein_g", ",", "nan", ",", "-">>,
    <<"energy_kcal", ",", "inf", ",", "inf">> }

NonFiniteFiles == UNION {[1..n -> NonFiniteFileLines] : n \in 0..MaxLines}

MainInit ==
  /\ fileLines \in NonFiniteFiles
  /\ df \in NonFiniteTables
  /\ settings \in [nutrition_constraints : {<<>>},
                   nutrients_to_optimize : OptimizeLists,
                   max_qty_per_food : {NoneVal, 3},
                   objective_type : {"min", "max"}]
  /\ pc = "load"
  /\ lp = NoSolver
  /\ result = Running
  /\ valid = NoNames
  /\ ParseIdle
  /\ SetIdle

\* main.py:32 and 57: the constraint set read from the file becomes the
\* constraints of the settings; a load that raises ends the script.
LoadConstraints ==
  /\ pc = "load"
  /\ LET r == ReadFromFile(fileLines, Names(CatalogColumns \ {"food_code"}))
     IN IF r.err = ""
        THEN /\ settings' = [settings EXCEPT !.nutrition_constraints = r.obj.nutrients]
             /\ pc' = "check"
             /\ UNCHANGED result
        ELSE /\ result' = Exc("ValueError", r.err, "")
             /\ pc' = "done"
             /\ UNCHANGED settings
  /\ UNCHANGED <<df, lp, Others7>>

MainNext ==
  \/ LoadConstraints
  \/ CheckInputs
  \/ CreateSolver
  \/ CreateVariables
  \/ AddConstraints
  \/ SetObjective
  \/ Solve
  \/ ExtractSolution

MainSpec == MainInit /\ [][MainNext]_vars

\* ================================================================ claims

\* The entries of d other than the one for key k.
Others(d, k) == SelectSeq(d, LAMBDA e : e.key # k)

\* C4: upsert(name, min, max) with a non-empty name that the allow-list (if
\* any) contains and bounds 0 <= min <= max succeeds, and afterwards the set
\* maps name to a constraint with exactly those bounds, all other entries
\* unchanged; and from_dict(payload) of such entries yields one entry per
\* payload key.
C4_UpsertStores ==
  /\ ( /\ last.op = "upsert"
       /\ last.key # ""
       /\ (allowed.given => last.key \in allowed.names)
       /\ 0 <= last.mn
       /\ last.mn <= (IF last.mx = NoneVal THEN Inf ELSE last.mx) )
     => /\ last.err = ""
        /\ last.key \in Keys(nutrients)
        /\ Get(nutrients, last.key).min_g = last.mn
        /\ Get(nutrients, last.key).max_g = (IF last.mx = NoneVal THEN Inf ELSE last.mx)
        /\ Others(nutrients, last.key) = Others(last.before, last.key)
  /\ ( /\ last.op = "from_dict"
       /\ \A i \in 1..Len(last.payload) :
            /\ last.valid.given => last.payload[i].key \in last.valid.names
            /\ 0 <= last.payload[i].mn
            /\ last.payload[i].mn
                 <= (IF last.payload[i].mx = NoneVal THEN Inf ELSE last.payload[i].mx) )
     => /\ last.err = ""
        /\ Keys(nutrients) = {last.payload[i].key : i \in 1..Len(last.payload)}

\* What C6 says read_from_file does: as ReadLines, with every line parsed by
\* from_string(line, valid_names).
RECURSIVE LoadWithNames(_, _, _)
LoadWithNames(obj, lines, valid_names) ==
  IF lines = <<>> THEN [obj |-> obj, kind |-> "ok", err |-> ""]
  ELSE LET ln == Strip(Head(lines))
       IN IF ln = <<>> \/ StartsWithHash(ln)
          THEN LoadWithNames(obj, Tail(lines), valid_names)
          ELSE LET nc == FromString(ln, valid_names)
               IN IF nc.kind # "ok"
                  THEN [obj |-> obj, kind |-> nc.kind, err |-> nc.err]
                  ELSE LoadWithNames([obj EXCEPT !.nutrients = DictSet(@, nc.c.name, nc.c)],
                                     Tail(lines), valid_names)

\* C6: read_from_file(lines, valid_names) skips blank and '#' lines, parses
\* the others as from_string(line, valid_names) does and fails on the first
\* line that is malformed or invalid: it fails whenever some parsed line
\* names a nutrient outside valid_names, and when it returns, the set holds
\* one entry per distinct name with the bounds of the last line for it.
C6_LoadChecksNames ==
  last.op = "read_from_file" =>
    LET want == LoadWithNames(NewSet(NoNames), last.file, last.valid)
    IN /\ (last.err = "") <=> (want.kind = "ok")
       /\ want.kind = "ok" => nutrients = want.obj.nutrients

\* C7: a constraint set with an allow-list holds only keys of the allow-list,
\* a failed upsert leaves the entries as they were, and remove of an absent
\* name leaves the entries as they were.
C7_AllowListInvariant ==
  /\ allowed.given => Keys(nutrients) \subseteq allowed.names
  /\ (last.op = "upsert" /\ last.err # "") => nutrients = last.before
  /\ (last.op = "remove" /\ last.key \notin Keys(last.before)) => nutrients = last.before

\* C7 witness: upsert on a set with an allow-list was refused for a
\* non-empty name outside the allow-list.
C7_Witness ==
  /\ last.op = "upsert"
  /\ last.err = "is not in allowed nutrients"
  /\ allowed.given
  /\ last.key \notin allowed.names
  /\ last.key # ""

\* C5: from_string(line, valid_names) raises the parse error exactly when
\* the line has not 3 comma-separated fields; otherwise (the bounds being
\* numbers or '-', '-' read as 0 for min and +infinity for max) it raises a
\* validation error exactly when the name is empty, or valid_names is
\* supplied, of any size, and lacks the name, or a bound is negative, or
\* max < min; and in every remaining case returns the constraint.
C5_FromStringErrors ==
  parsed.kind # "none" =>
    LET split == SplitComma(RemoveSpaces(line))
    IN IF Len(split) # 3 THEN parsed.kind = "ParseError"
       ELSE LET mn == MinField(split[2])
                mx == MaxField(split[3])
                nm == FieldName(split[1])
            IN (mn.ok /\ mx.ok) =>
                 IF \/ nm = ""
                    \/ (valid.given /\ nm \notin valid.names)
                    \/ mn.v < 0
                    \/ mx.v < 0
                    \/ mx.v < mn.v
                 THEN parsed.kind = "ValidationError"
                 ELSE parsed = Returned(Constraint(nm, mn.v, mx.v))

\* ---------------------------------------------------------------- solve: claims
NoConstraints == Len(settings.nutrition_constraints) = 0
NoOptimize == Len(settings.nutrients_to_optimize) = 0
MissingColumn == \E n \in AllNutrients(settings) : n \notin df.cols
NoRows == Len(df.rows) = 0

RaisedWith(msg) == result.kind = "raised" /\ result.exc = "ValueError" /\ result.msg = msg

PreconditionMessages ==
  { "No constraints in nutrition_constraints object, nothing to solve",
    "No nutrients to were given to optimize for",
    "is not present in the dataframe",
    "No foods (rows) in dataframe" }

\* C1: once solve is past its checks, the error it raised is the one of the
\* lowest-numbered violated precondition among (1) no constraints, (2) no
\* nutrients to optimize, (3) a name that is no column, (4) no rows, raised
\* with no solver created; with none violated it raised none of the four.
C1_PreconditionOrder ==
  pc \notin {"idle", "check"} =>
    IF NoConstraints
    THEN RaisedWith("No constraints in nutrition_constraints object, nothing to solve")
         /\ lp = NoSolver
    ELSE IF NoOptimize
    THEN RaisedWith("No nutrients to were given to optimize for") /\ lp = NoSolver
    ELSE IF MissingColumn
    THEN /\ RaisedWith("is not present in the dataframe")
         /\ result.arg \in AllNutrients(settings) \ df.cols
         /\ lp = NoSolver
    ELSE IF NoRows
    THEN RaisedWith("No foods (rows) in dataframe") /\ lp = NoSolver
    ELSE ~(result.kind = "raised" /\ result.msg \in PreconditionMessages)

\* C1 witness: a request violating preconditions (3) and (4) at once was
\* refused with the error of (3).
C1_Witness ==
  /\ pc = "done"
  /\ ~NoConstraints /\ ~NoOptimize /\ MissingColumn /\ NoRows
  /\ RaisedWith("is not present in the dataframe")

\* C2: the linear program handed to the solver has one variable per food
\* row with bounds [0, max_qty_per_food or +infinity], one constraint per
\* entry of the constraint set with bounds [min_g, max_g or +infinity] and
\* the nutrient's per-gram amounts as coefficients, and as objective
\* coefficient of food i the sum over the optimize list (weight 1 each) of
\* the nutrient's per-gram amount in row i, in the requested direction.
C2_ModelShape ==
  lp.direction # "unset" =>
    LET d == settings.nutrition_constraints
        opt == settings.nutrients_to_optimize
        cap == IF settings.max_qty_per_food = NoneVal THEN Inf
               ELSE settings.max_qty_per_food
    IN /\ Len(lp.vars) = Len(df.rows)
       /\ \A i \in 1..Len(lp.vars) : lp.vars[i].lb = 0 /\ lp.vars[i].ub = cap
       /\ Len(lp.constraints) = Len(d)
       /\ \A j \in 1..Len(d) :
            /\ lp.constraints[j].lb = d[j].c.min_g
            /\ lp.constraints[j].ub =
                 (IF d[j].c.max_g \in {Inf, NoneVal} THEN Inf ELSE d[j].c.max_g)
            /\ Len(lp.constraints[j].coeffs) = Len(df.rows)
            /\ \A i \in 1..Len(df.rows) :
                 lp.constraints[j].coeffs[i] = df.rows[i][d[j].key]
       /\ Len(lp.objective) = Len(df.rows)
       /\ \A i \in 1..Len(df.rows) :
            lp.objective[i] = SeqSum([k \in 1..Len(opt) |-> df.rows[i][opt[k]]])
       /\ (settings.objective_type \in {"min", "minimize", "minimization"}
             => lp.direction = "min")
       /\ (settings.objective_type \in {"max", "maximize", "maximization"}
             => lp.direction = "max")

\* C2 witness: a program of two foods, two constraints, a per-food cap and
\* an objective that names a nutrient twice, to be maximized.
C2_Witness ==
  /\ pc = "solve"
  /\ Len(lp.vars) >= 2
  /\ Len(lp.constraints) = 2
  /\ settings.max_qty_per_food = 3
  /\ Len(settings.nutrients_to_optimize) >= 2
  /\ settings.nutrients_to_optimize[1] = settings.nutrients_to_optimize[2]
  /\ lp.direction = "max"

C8_SelectedAboveTolerance ==
  result.kind = "returned" =>
    LET chosen == result.chosen_foods
    IN /\ \A i \in 1..Len(lp.values) :
            (lp.values[i] > Eps) <=> (\E k \in 1..Len(chosen) : chosen[k].row = i)
       /\ \A k \in 1..Len(chosen) : chosen[k].amount_g = lp.values[chosen[k].row]
       /\ \A k, l \in 1..Len(chosen) : k < l => chosen[k].row < chosen[l].row
       /\ result.totals.num_items_chosen = Len(chosen)

\* C8 witness: a result in which one food was solved to exactly the
\* tolerance and left out, and another above it and selected.
C8_Witness ==
  /\ result.kind = "returned"
  /\ \E i, j \in 1..Len(lp.values) : lp.values[i] = Eps /\ lp.values[j] > Eps
  /\ Len(result.chosen_foods) = 1

\* C9: when the preconditions hold and the solver reports OPTIMAL, solve
\* returns a result with the total of every nutrient, whether or not the
\* table has an energy_kcal column; with the column, total_energy_kcal is
\* the sum over all foods of amount x energy per gram.
C9_EnergyOptional ==
  (pc = "done" /\ lp.solved /\ lp.status = "OPTIMAL") =>
    /\ result.kind = "returned"
    /\ DOMAIN result.totals.total = AllNutrients(settings)
    /\ \A n \in AllNutrients(settings) :
         result.totals.total[n] =
           SeqSum([i \in 1..Len(df.rows) |-> lp.values[i] * df.rows[i][n]])
    /\ "energy_kcal" \in df.cols =>
         result.totals.total_energy_kcal =
           SeqSum([i \in 1..Len(df.rows) |-> lp.values[i] * df.rows[i]["energy_kcal"]])

\* A request that validation has to refuse.
Misconfigured ==
  \/ NoConstraints
  \/ NoOptimize
  \/ MissingColumn
  \/ settings.objective_type
       \notin {"min", "minimize", "minimization", "max", "maximize", "maximization"}
  \/ (settings.max_qty_per_food # NoneVal /\ settings.max_qty_per_food <= 0)

\* C10: for a misconfigured request no solver variable, constraint or
\* objective coefficient is ever created and the solver is never run.
C10_ValidationBeforeModel ==
  (pc # "idle" /\ Misconfigured) =>
    /\ lp.vars = <<>>
    /\ lp.constraints = <<>>
    /\ lp.objective = <<>>
    /\ ~lp.solved

\* A value that is not finite is among those solve has read: a cell of a
\* constrained or optimized nutrient, or the min bound of a constraint.
NonFiniteRead ==
  /\ lp.constraints # <<>>
  /\ \/ \E n \in AllNutrients(settings), i \in 1..Len(df.rows) : ~IsFinite(df.rows[i][n])
     \/ \E j \in 1..Len(settings.nutrition_constraints) :
          ~IsFinite(settings.nutrition_constraints[j].c.min_g)

\* C11: a solve that has read a NaN or infinite cell of a constrained or
\* optimized nutrient, or a NaN or infinite min bound, ends with a
\* validation error, and no result returned has a NaN total or objective
\* value.
C11_NonFiniteRejected ==
  /\ (pc = "done" /\ NonFiniteRead) =>
       (result.kind = "raised" /\ result.exc = "ValueError")
  /\ result.kind = "returned" =>
       /\ result.totals.objective_value # NaN
       /\ result.totals.total_energy_kcal # NaN
       /\ \A n \in DOMAIN result.totals.total : result.totals.total[n] # NaN

====
